---------------------------- MODULE Spec2Model ----------------------------
(***************************************************************************)
(* A model of the KOSIS / data.go.kr export scripts: runner.py (the job    *)
(* runner) and trash/kosis_batch_export.py (the older batch exporter).     *)
(*                                                                         *)
(* Text is modelled as a sequence of one-character strings, so that        *)
(* splitting, slicing, digit tests and number parsing are computed the way *)
(* Python computes them.  The token "sup2" stands for the single character *)
(* U+00B2 SUPERSCRIPT TWO: str.isdigit() accepts it, int() rejects it.     *)
(***************************************************************************)
EXTENDS Integers, Sequences, FiniteSets, TLC

VARIABLES
    ch_df, ch_out,                   \* one call of pivot_table_view: table, outcome
    dg_obj, dg_path, dg_out,         \* one call of deep_get: arguments, outcome
    lb_fn, lb_in, lb_cur, lb_n,      \* a column label under fmt_prd / fmt_prd2
    pv_df, pv_cfg, pv_out,           \* one pivot build: table, job["pivot"], outcome
    prog,                            \* the script run: "runner" or "legacy"
    api_key,                         \* whether KOSIS_API_KEY is set
    found,                           \* the job files found / the enabled config rows
    jobs, pos, pc,                   \* main: the job list, the loop position, the place
    log,                             \* per job attempted: the response and what became of it
    files                            \* the workbooks written, in order

dgVars == <<dg_obj, dg_path, dg_out>>
lbVars == <<lb_fn, lb_in, lb_cur, lb_n>>
pvVars == <<pv_df, pv_cfg, pv_out>>
chVars == <<ch_df, ch_out>>
mainVars == <<prog, api_key, found, jobs, pos, pc, log, files>>
vars == <<ch_df, ch_out, dg_obj, dg_path, dg_out, lb_fn, lb_in, lb_cur, lb_n,
          pv_df, pv_cfg, pv_out,
          prog, api_key, found, jobs, pos, pc, log, files>>

(***************************************************************************)
(* Bounds of the model.                                                    *)
(***************************************************************************)
MaxListLen == 2        \* longest list inside a nested document
MaxPathLen == 3        \* longest dotted path, in characters
MaxLabelLen == 7       \* longest column label, in characters
MaxRows == 2           \* most records of a table handed to a pivot build
MaxJobs == 2           \* most job files (config rows) of one run
MaxChangeRows == 3     \* most records of a table handed to pivot_table_view

(***************************************************************************)
(* Characters and Python's str / int primitives.                           *)
(***************************************************************************)
DecimalChars == {"0", "1", "2", "3", "4", "5", "6", "7", "8", "9"}

\* Characters str.isdigit() accepts: the decimal digits and the digits that
\* are not decimal, such as the superscripts.
IsDigitChars == DecimalChars \cup {"sup2"}

DigitValue(c) ==
    CASE c = "0" -> 0 [] c = "1" -> 1 [] c = "2" -> 2 [] c = "3" -> 3
      [] c = "4" -> 4 [] c = "5" -> 5 [] c = "6" -> 6 [] c = "7" -> 7
      [] c = "8" -> 8 [] c = "9" -> 9

\* str.isdigit(): at least one character, and every character a digit.
isdigit(s) == Len(s) > 0 /\ \A k \in 1..Len(s) : s[k] \in IsDigitChars

\* Whether int(s) accepts s, for an s that holds no sign and no blank.
IntAccepts(s) == Len(s) > 0 /\ \A k \in 1..Len(s) : s[k] \in DecimalChars

RECURSIVE IntValue(_)
IntValue(s) ==
    IF Len(s) = 0 THEN 0
    ELSE 10 * IntValue(SubSeq(s, 1, Len(s) - 1)) + DigitValue(s[Len(s)])

\* str.split("."): the pieces between the dots, empty pieces kept.
RECURSIVE SplitDot(_)
SplitDot(s) ==
    IF \A k \in 1..Len(s) : s[k] # "."
    THEN <<s>>
    ELSE LET i == CHOOSE k \in 1..Len(s) :
                      s[k] = "." /\ \A j \in 1..(k - 1) : s[j] # "."
         IN  <<SubSeq(s, 1, i - 1)>> \o SplitDot(SubSeq(s, i + 1, Len(s)))

\* The Python str a character sequence denotes, as a dictionary key.
RECURSIVE Key(_)
Key(s) == IF Len(s) = 0 THEN "" ELSE s[1] \o Key(Tail(s))

(***************************************************************************)
(* Nested documents (json.load / Response.json()): None, a scalar, a dict  *)
(* or a list.                                                              *)
(***************************************************************************)
NullDoc == [t |-> "null"]
Scalar(v) == [t |-> "scalar", v |-> v]
MapDoc(m) == [t |-> "map", m |-> m]
ListDoc(l) == [t |-> "list", l |-> l]

\* What a call produces: a returned value, or the exception that left it.
Return(v) == [exc |-> "none", val |-> v]
Raise(e) == [exc |-> e, val |-> NullDoc]
Pending == [exc |-> "pending", val |-> NullDoc]

\* dict.get(key): the value, or None for an absent key.
DictGet(m, k) == IF k \in DOMAIN m THEN m[k] ELSE NullDoc

\* The loop of deep_get over the parts left of the path.
RECURSIVE deep_get_loop(_, _)
deep_get_loop(cur, parts) ==
    IF Len(parts) = 0 THEN Return(cur)
    ELSE LET part == Head(parts) IN
         IF cur.t = "null" THEN Return(NullDoc)
         ELSE IF cur.t = "map"
              THEN deep_get_loop(DictGet(cur.m, Key(part)), Tail(parts))
         ELSE IF cur.t = "list"
              THEN IF isdigit(part)
                   THEN IF ~IntAccepts(part)
                        THEN Raise("ValueError")
                        ELSE LET idx == IntValue(part) IN
                             deep_get_loop(
                                 IF 0 <= idx /\ idx < Len(cur.l)
                                 THEN cur.l[idx + 1] ELSE NullDoc,
                                 Tail(parts))
                   ELSE Return(NullDoc)
         ELSE Return(NullDoc)

deep_get(obj, path) ==
    IF Len(path) = 0 THEN Return(obj)
    ELSE deep_get_loop(obj, SplitDot(path))

\* list(x) for None, a list, anything else.
normalize_to_list(x) ==
    IF x.t = "null" THEN <<>>
    ELSE IF x.t = "list" THEN x.l
    ELSE <<x>>

(***************************************************************************)
(* Period labels: fmt_prd of make_default_pivot and fmt_prd2 of            *)
(* make_custom_pivot.  x[:4] and x[4:] are Python slices.                  *)
(***************************************************************************)
PeriodSplit == 4       \* the slice position of x[:4] / x[4:]
PeriodMinLen == 6      \* len(x) >= 6

SliceTo(x, n) == SubSeq(x, 1, IF n < Len(x) THEN n ELSE Len(x))
SliceFrom(x, n) == SubSeq(x, n + 1, Len(x))

fmt_prd(x) ==
    IF Len(x) >= PeriodMinLen
    THEN SliceTo(x, PeriodSplit) \o <<".">> \o SliceFrom(x, PeriodSplit)
    ELSE x

fmt_prd2(x) ==
    IF Len(x) >= PeriodMinLen /\ isdigit(x)
    THEN SliceTo(x, PeriodSplit) \o <<".">> \o SliceFrom(x, PeriodSplit)
    ELSE x

(***************************************************************************)
(* pandas.  A DataFrame is its set of column names and its rows, each row  *)
(* a function from the column names to cells (the order of the columns is  *)
(* not modelled).  A cell is None, NaN, a str or a number.                 *)
(***************************************************************************)
NaN == [t |-> "nan"]
Num(n) == [t |-> "num", n |-> n]
NoneDF == [kind |-> "none"]
Frame(columns, rows) == [kind |-> "frame", columns |-> columns, rows |-> rows]

isna(c) == c.t \in {"null", "nan"}

\* pd.to_numeric(errors="coerce") on one cell: a decimal numeral becomes its
\* number, anything unparseable becomes NaN.
to_numeric(c) ==
    IF c.t = "num" THEN c
    ELSE IF c.t = "scalar" /\ IntAccepts(c.v) THEN Num(IntValue(c.v))
    ELSE NaN

\* Series.astype(str) on one cell: str(None) and str(nan) for the missing.
astype_str(c) ==
    IF c.t = "null" THEN Scalar(<<"N", "o", "n", "e">>)
    ELSE IF c.t = "nan" THEN Scalar(<<"n", "a", "n">>)
    ELSE c

\* d[col] = pd.to_numeric(d[col], errors="coerce")
CoerceNumeric(df, col) ==
    Frame(df.columns,
          [i \in 1..Len(df.rows) |->
              [c \in df.columns |->
                  IF c = col THEN to_numeric(df.rows[i][c]) ELSE df.rows[i][c]]])

\* d[col] = d[col].astype(str)
CoerceStr(df, col) ==
    Frame(df.columns,
          [i \in 1..Len(df.rows) |->
              [c \in df.columns |->
                  IF c = col THEN astype_str(df.rows[i][c]) ELSE df.rows[i][c]]])

\* if col in d.columns: <the conversion>
CoerceNumericIfPresent(df, col) ==
    IF col \in df.columns THEN CoerceNumeric(df, col) ELSE df
CoerceStrIfPresent(df, col) ==
    IF col \in df.columns THEN CoerceStr(df, col) ELSE df

\* Code-point order of the characters the model uses.
CharOrder ==
    <<".", "0", "1", "2", "3", "4", "5", "6", "7", "8", "9",
      "A", "B", "C", "D", "E", "G", "H", "I", "L", "N", "O", "P", "Q", "R",
      "S", "T", "V", "W", "_",
      "a", "b", "c", "d", "e", "f", "g", "n", "o", "x">>
CharCode(c) == CHOOSE k \in 1..Len(CharOrder) : CharOrder[k] = c

\* a < b for two str.
RECURSIVE StrLess(_, _)
StrLess(a, b) ==
    IF Len(b) = 0 THEN FALSE
    ELSE IF Len(a) = 0 THEN TRUE
    ELSE IF a[1] # b[1] THEN CharCode(a[1]) < CharCode(b[1])
    ELSE StrLess(Tail(a), Tail(b))

\* a < b for two group keys, tuples of str cells of the same length.
RECURSIVE KeyLess(_, _)
KeyLess(a, b) ==
    IF Len(a) = 0 THEN FALSE
    ELSE IF a[1] # b[1] THEN StrLess(a[1].v, b[1].v)
    ELSE KeyLess(Tail(a), Tail(b))

\* The least key of a non-empty set of keys.
MinKey(S) == CHOOSE x \in S : \A y \in S \ {x} : KeyLess(x, y)

RECURSIVE SortKeysFrom(_, _)
SortKeysFrom(S, m) == 
    IF S = {m} THEN <<m>> ELSE <<m>> \o SortKeysFrom(S \ {m}, MinKey(S \ {m}))

\* The keys in ascending order (sort=True of groupby, sort_index).
SortKeys(S) == IF S = {} THEN <<>> ELSE SortKeysFrom(S, MinKey(S))

KeyOf(row, names) == [k \in 1..Len(names) |-> row[names[k]]]

\* groupby(keys, dropna=True): the rows with a missing key belong to no group.
GroupedRows(df, keys) ==
    {i \in 1..Len(df.rows) : \A k \in 1..Len(keys) : ~isna(df.rows[i][keys[k]])}

\* The rows of group g.
Members(df, keys, g) == {i \in GroupedRows(df, keys) : KeyOf(df.rows[i], keys) = g}

\* The least of a non-empty set of row numbers.
FirstRow(rows) == CHOOSE i \in rows : \A j \in rows : i <= j

\* The greatest of a non-empty set of row numbers.
LastRow(rows) == CHOOSE i \in rows : \A j \in rows : j <= i

\* A build that aggregates with "last" where the code says "first".
GroupByFirst_last(df, members, val) ==
    IF \A i \in members : isna(df.rows[i][val]) THEN NaN
    ELSE df.rows[LastRow({i \in members : ~isna(df.rows[i][val])})][val]

\* GroupBy.first() of column val over the rows `members`: the first value,
\* in row order, that is not missing; NaN when there is none.
GroupByFirst(df, members, val) ==
    IF \A i \in members : isna(df.rows[i][val]) THEN NaN
    ELSE df.rows[FirstRow({i \in members : ~isna(df.rows[i][val])})][val]

\* A pivot that drops no group (dropna=False).
LiveGroups_keepall(df, keys, val) ==
    {KeyOf(df.rows[i], keys) : i \in GroupedRows(df, keys)}

\* The groups that agged.dropna(how="all") keeps: those whose value is not NaN.
LiveGroups(df, keys, val) ==
    {g \in {KeyOf(df.rows[i], keys) : i \in GroupedRows(df, keys)} :
        ~isna(GroupByFirst(df, Members(df, keys, g), val))}

\* unstack: one row per index key, one column per columns key, NaN where a
\* row has no group for a column.
Unstacked(df, idx, keys, val, live, rowkeys, colkeys) ==
    [kind |-> "pivot",
     index |-> idx,
     rows |-> rowkeys,
     columns |-> colkeys,
     cells |-> [i \in 1..Len(rowkeys) |-> [j \in 1..Len(colkeys) |->
                  IF (rowkeys[i] \o colkeys[j]) \in live
                  THEN GroupByFirst(df, Members(df, keys, rowkeys[i] \o colkeys[j]), val)
                  ELSE NaN]]]

PivotOfGroups(df, idx, keys, val, live) ==
    Unstacked(df, idx, keys, val, live,
              SortKeys({SubSeq(g, 1, Len(idx)) : g \in live}),
              SortKeys({SubSeq(g, Len(idx) + 1, Len(keys)) : g \in live}))

\* DataFrame.pivot_table(index=idx, columns=cols, values=val, aggfunc="first")
\* with its defaults (dropna=True, sort=True), for non-empty idx and cols:
\* group by idx + cols, aggregate, drop the groups whose value is NaN,
\* unstack the cols levels, sort both axes.
pivot_table(df, idx, cols, val) ==
    PivotOfGroups(df, idx, idx \o cols, val, LiveGroups(df, idx \o cols, val))

\* "_".join(map(str, c)) for a column key c of several levels; str(c) for a
\* key of one level.
RECURSIVE FlattenLabel(_)
FlattenLabel(c) ==
    IF Len(c) = 0 THEN <<>>
    ELSE IF Len(c) = 1 THEN c[1].v
    ELSE c[1].v \o <<"_">> \o FlattenLabel(Tail(c))

\* pv.columns = [str(c) for c in pv.columns], or the join for a MultiIndex.
FlattenColumns(pv) ==
    [pv EXCEPT !.columns = [j \in 1..Len(pv.columns) |-> FlattenLabel(pv.columns[j])]]

\* pv.columns = [fmt_prd(c) for c in pv.columns]
FormatColumns(pv) ==
    [pv EXCEPT !.columns = [j \in 1..Len(pv.columns) |-> fmt_prd(pv.columns[j])]]

\* if pivot_cfg.get("flatten_columns_year", False):
\*     pv.columns = [fmt_prd2(c) for c in pv.columns]
FormatColumnsIf(pv, flag) ==
    [pv EXCEPT !.columns = [j \in 1..Len(pv.columns) |->
        IF flag THEN fmt_prd2(pv.columns[j]) ELSE pv.columns[j]]]

make_default_pivot(df) ==
    IF "DT" \notin df.columns \/ "PRD_DE" \notin df.columns THEN Return(NoneDF)
    ELSE IF "C1_NM" \notin df.columns THEN Return(NoneDF)
    ELSE Return(FormatColumns(FlattenColumns(
            pivot_table(CoerceStr(CoerceNumeric(df, "DT"), "PRD_DE"),
                        <<"C1_NM">>, <<"PRD_DE">>, "DT"))))

\* need = set(idx + cols + [val])
NeededColumns(pivot_cfg) ==
    {pivot_cfg.index.names[k] : k \in 1..Len(pivot_cfg.index.names)}
    \cup {pivot_cfg.columns.names[k] : k \in 1..Len(pivot_cfg.columns.names)}
    \cup {pivot_cfg.values}

\* pivot_cfg: index and columns are JSON values, lists of names or not
\* (islist); values is a column name.
make_custom_pivot(df, pivot_cfg) ==
    IF ~pivot_cfg.index.islist \/ ~pivot_cfg.columns.islist
    THEN Raise("RuntimeError")
    ELSE IF NeededColumns(pivot_cfg) \ df.columns # {}
    THEN Raise("RuntimeError")
    ELSE Return(FormatColumnsIf(FlattenColumns(
            pivot_table(CoerceStrIfPresent(CoerceNumeric(df, pivot_cfg.values),
                                           "PRD_DE"),
                        pivot_cfg.index.names, pivot_cfg.columns.names,
                        pivot_cfg.values)),
            pivot_cfg.flatten_columns_year))

TABLE_VIEW == <<"T", "A", "B", "L", "E", "_", "V", "I", "E", "W">>

\* sheet_name = "TABLE_VIEW", or pivot_cfg["sheet_name"] when there is one.
SheetNameOf(pivot_cfg) ==
    IF pivot_cfg.present /\ Len(pivot_cfg.sheet_name) > 0
    THEN pivot_cfg.sheet_name ELSE TABLE_VIEW

\* A build_table_view without its try / except: the exception of the build
\* leaves it.
TableViewOf_uncaught(built, sheet_name) ==
    IF built.exc = "none"
    THEN Return([view |-> built.val, sheet_name |-> sheet_name])
    ELSE built

\* The try / except of build_table_view around the build `built`.
TableViewOf(built, sheet_name) ==
    IF built.exc = "none"
    THEN Return([view |-> built.val, sheet_name |-> sheet_name])
    ELSE Return([view |-> NoneDF, sheet_name |-> sheet_name])

\* build_table_view: (view or None, sheet_name).
build_table_view(df, job) ==
    TableViewOf(IF job.pivot.present
                THEN make_custom_pivot(df, job.pivot)
                ELSE make_default_pivot(df),
                SheetNameOf(job.pivot))

(***************************************************************************)
(* pd.DataFrame(data) for the data the two scripts hand it.                *)
(***************************************************************************)
AllKeys(items) == UNION {DOMAIN items[i].m : i \in 1..Len(items)}

\* The records of a list of dicts: the union of the keys, NaN where a dict
\* lacks one.
RecordsFrame(items, columns) ==
    Frame(columns,
          [i \in 1..Len(items) |->
              [c \in columns |->
                  IF c \in DOMAIN items[i].m THEN items[i].m[c] ELSE NaN]])

\* One column of the given name holding the items.
ColumnFrame(name, items) ==
    Frame({name}, [i \in 1..Len(items) |-> [c \in {name} |-> items[i]]])

\* pd.DataFrame(a list): records when its first element is a dict (an
\* element that is not one then has no .keys()); else one column, named 0.
DataFrameOfList(items) ==
    IF Len(items) = 0 THEN Return(Frame({}, <<>>))
    ELSE IF items[1].t = "map"
         THEN IF \E i \in 1..Len(items) : items[i].t # "map"
              THEN Raise("AttributeError")
              ELSE Return(RecordsFrame(items, AllKeys(items)))
    ELSE Return(ColumnFrame("0", items))

\* pd.DataFrame({"value": items})
DataFrameOfValues(items) == ColumnFrame("value", items)

\* pd.DataFrame(data): a list, or a dict whose values are all scalars
\* (pandas then asks for an index).
DataFrameOf(data) ==
    IF data.t = "list" THEN DataFrameOfList(data.l)
    ELSE Raise("ValueError")

\* A provider that never finds its table empty.
empty_never(df) == FALSE

\* DataFrame.empty: no rows or no columns.
empty(df) == Len(df.rows) = 0 \/ df.columns = {}

(***************************************************************************)
(* The providers of runner.py.  A response is what requests.get,           *)
(* raise_for_status and r.json() hand back: an HTTP error, a body that is  *)
(* not JSON, or the parsed document.                                       *)
(***************************************************************************)
HttpError == [t |-> "http_error"]
NotJson == [t |-> "not_json"]

\* return df, pivot_df, sheet_name, after build_table_view.
JobResult(raw, tv) ==
    IF tv.exc # "none" THEN tv
    ELSE Return([raw |-> raw, view |-> tv.val.view,
                 sheet_name |-> tv.val.sheet_name])

\* run_kosis_job from df = pd.DataFrame(data) on.
KosisTable(job, made) ==
    IF made.exc # "none" THEN made
    ELSE IF empty(made.val) THEN Raise("RuntimeError")
    ELSE JobResult(made.val, build_table_view(made.val, job))

\* run_kosis_job(job) against the response resp; has_key: KOSIS_API_KEY set.
run_kosis_job(job, resp, has_key) ==
    IF ~has_key THEN Raise("RuntimeError")
    ELSE IF resp.t = "http_error" THEN Raise("HTTPError")
    ELSE IF resp.t = "not_json" THEN Raise("JSONDecodeError")
    ELSE IF resp.t # "list" THEN Raise("RuntimeError")
    ELSE KosisTable(job, DataFrameOfList(resp.l))

\* run_data_go_kr_job from the DataFrame on.
DataGoKrTable(job, made) ==
    IF made.exc # "none" THEN made
    ELSE JobResult(made.val, build_table_view(made.val, job))

\* run_data_go_kr_job from items = normalize_to_list(items) on.
DataGoKrItems(job, items) ==
    IF Len(items) = 0 THEN Raise("RuntimeError")
    ELSE DataGoKrTable(job, IF items[1].t = "map"
                            THEN DataFrameOfList(items)
                            ELSE Return(DataFrameOfValues(items)))

\* run_data_go_kr_job once the items are looked up (or the lookup raised).
DataGoKrFound(job, got) ==
    IF got.exc # "none" THEN got
    ELSE DataGoKrItems(job, normalize_to_list(got.val))

\* run_data_go_kr_job(job) against the response resp, for a job that has a
\* base_url and a params dict without the service-key placeholder.
run_data_go_kr_job(job, resp) ==
    IF resp.t = "http_error" THEN Raise("HTTPError")
    ELSE IF resp.t = "not_json" THEN Raise("RuntimeError")
    ELSE DataGoKrFound(job,
            IF Len(job.item_path) = 0
            THEN IF resp.t = "list" THEN Return(resp) ELSE Raise("RuntimeError")
            ELSE deep_get(resp, job.item_path))

\* The provider dispatch of run_job, up to the call of save_excel.
run_job_fetch(job, resp, has_key) ==
    IF job.provider = "kosis" THEN run_kosis_job(job, resp, has_key)
    ELSE IF job.provider = "data_go_kr" THEN run_data_go_kr_job(job, resp)
    ELSE Raise("RuntimeError")

\* save_excel: the sheets written, in order.
SheetNameLimit == 31
RAW == <<"R", "A", "W">>
Sheet(name, table) == [name |-> name, table |-> table]

\* A save_excel that hands the sheet name on as it is.
save_excel_untruncated(raw_df, pivot_df, sheet_name) ==
    <<Sheet(RAW, raw_df)>>
    \o (IF pivot_df # NoneDF THEN <<Sheet(sheet_name, pivot_df)>> ELSE <<>>)

save_excel(raw_df, pivot_df, sheet_name) ==
    <<Sheet(RAW, raw_df)>>
    \o (IF pivot_df # NoneDF
        THEN <<Sheet(SliceTo(sheet_name, SheetNameLimit), pivot_df)>>
        ELSE <<>>)

\* A handler that catches RuntimeError alone.
main_catches_runtime_only(exc) == exc = "RuntimeError"

\* except Exception: every exception class run_job raises derives from it.
main_catches(exc) ==
    exc \in {"RuntimeError", "HTTPError", "JSONDecodeError", "ValueError",
             "AttributeError", "KeyError", "TypeError"}

\* The least of a non-empty set of names.
MinName(S) == CHOOSE x \in S : \A y \in S \ {x} : StrLess(x, y)

RECURSIVE SortNamesFrom(_, _)
SortNamesFrom(S, m) ==
    IF S = {m} THEN <<m>> ELSE <<m>> \o SortNamesFrom(S \ {m}, MinName(S \ {m}))

\* sorted(JOBS_DIR.glob("*.json")), on the file names.
sorted(S) == IF S = {} THEN <<>> ELSE SortNamesFrom(S, MinName(S))

(***************************************************************************)
(* trash/kosis_batch_export.py: the pivot with its change table.           *)
(***************************************************************************)
\* A difference that takes a missing cell for 0.
Minus_fillzero(a, b) ==
    Num((IF isna(a) THEN 0 ELSE a.n) - (IF isna(b) THEN 0 ELSE b.n))

\* a - b on two float cells: NaN when either is NaN.
Minus(a, b) == IF isna(a) \/ isna(b) THEN NaN ELSE Num(a.n - b.n)

\* DataFrame.diff(axis=1) of the value columns, the index kept.
diff_axis1(pv) ==
    [pv EXCEPT !.cells =
        [i \in 1..Len(pv.rows) |-> [j \in 1..Len(pv.columns) |->
            IF j = 1 THEN NaN
            ELSE Minus(pv.cells[i][j], pv.cells[i][j - 1])]]]

\* index_col: "C1_NM", else "C1", else None.
IndexCol(df) ==
    IF "C1_NM" \in df.columns THEN "C1_NM"
    ELSE IF "C1" \in df.columns THEN "C1" ELSE "None"

\* return pivot, pivot_change (and df as the conversions left it).
PivotWithChange(d, pivot) ==
    Return([df |-> d, pivot |-> pivot, change |-> diff_axis1(pivot)])

\* pivot_table_view after the in-place conversions of DT and PRD_DE.
PivotTableViewOf(d) ==
    IF IndexCol(d) = "None"
    THEN Return([df |-> d, pivot |-> NoneDF, change |-> NoneDF])
    ELSE IF "PRD_DE" \notin d.columns \/ "DT" \notin d.columns
    THEN Raise("KeyError")
    ELSE PivotWithChange(d,
            FormatColumns(FlattenColumns(
                pivot_table(d, <<IndexCol(d)>>, <<"PRD_DE">>, "DT"))))

pivot_table_view(df) ==
    PivotTableViewOf(CoerceStrIfPresent(CoerceNumericIfPresent(df, "DT"), "PRD_DE"))

CHANGE == <<"C", "H", "A", "N", "G", "E">>

\* The sheets the batch exporter writes for one row.
legacy_sheets(df, pivot, pivot_change) ==
    <<Sheet(RAW, df)>>
    \o (IF pivot # NoneDF THEN <<Sheet(TABLE_VIEW, pivot)>> ELSE <<>>)
    \o (IF pivot_change # NoneDF THEN <<Sheet(CHANGE, pivot_change)>> ELSE <<>>)

(***************************************************************************)
(* deep_get on bounded documents and paths.                                *)
(***************************************************************************)
DgKeys == {"a", "0"}
DgLeaves == {NullDoc, Scalar(<<"7">>)}
PathChars == {"a", "0", "1", "sup2", "."}

MapsOver(K, D) == {MapDoc(m) : m \in UNION {[S -> D] : S \in SUBSET K}}
ListsOver(D) == {ListDoc(l) : l \in UNION {[1..k -> D] : k \in 0..MaxListLen}}

DgInner == DgLeaves \cup MapsOver(DgKeys, DgLeaves) \cup ListsOver(DgLeaves)
DgDocs == DgInner \cup MapsOver(DgKeys, DgInner) \cup ListsOver(DgInner)
DgPaths == UNION {[1..k -> PathChars] : k \in 0..MaxPathLen}

DgIdle == dg_obj = NullDoc /\ dg_path = <<>> /\ dg_out = Pending

CallDeepGet ==
    /\ dg_out = Pending
    /\ dg_out' = deep_get(dg_obj, dg_path)
    /\ UNCHANGED <<dg_obj, dg_path>>
    /\ UNCHANGED <<lbVars, pvVars, chVars, mainVars>>

(***************************************************************************)
(* One column label, renamed once and once more.                           *)
(***************************************************************************)
LabelChars == {"2", ".", "Q"}
Labels == UNION {[1..k -> LabelChars] : k \in 0..MaxLabelLen}

LbIdle == lb_fn = "none" /\ lb_in = <<>> /\ lb_cur = <<>> /\ lb_n = 0

\* pv.columns = [fmt_prd(c) for c in pv.columns], on one label; taken a
\* second time it renames the renamed label.
RenameDefault ==
    /\ lb_fn = "fmt_prd"
    /\ lb_n < 2
    /\ lb_cur' = fmt_prd(lb_cur)
    /\ lb_n' = lb_n + 1
    /\ UNCHANGED <<lb_fn, lb_in>>
    /\ UNCHANGED <<dgVars, pvVars, chVars, mainVars>>

RenameCustom ==
    /\ lb_fn = "fmt_prd2"
    /\ lb_n < 2
    /\ lb_cur' = fmt_prd2(lb_cur)
    /\ lb_n' = lb_n + 1
    /\ UNCHANGED <<lb_fn, lb_in>>
    /\ UNCHANGED <<dgVars, pvVars, chVars, mainVars>>

(***************************************************************************)
(* One pivot build of runner.py on a bounded table of KOSIS-shaped         *)
(* records.                                                                *)
(***************************************************************************)
NoPivotCfg == [present |-> FALSE]
NameList(names) == [islist |-> TRUE, names |-> names]
NotAList == [islist |-> FALSE, names |-> <<>>]
PivotCfg(idx, cols, val, sheet, flatten) ==
    [present |-> TRUE, index |-> idx, columns |-> cols, values |-> val,
     sheet_name |-> sheet, flatten_columns_year |-> flatten]

StatColumns == {"C1_NM", "PRD_DE", "DT"}
StatRecords ==
    [C1_NM : {Scalar(<<"A">>), Scalar(<<"B">>), NullDoc},
     PRD_DE : {Scalar(<<"2", "0", "2", "3">>),
               Scalar(<<"2", "0", "2", "5", "1", "1">>)},
     DT : {Scalar(<<"1">>), Scalar(<<"2">>), Scalar(<<"x">>), NullDoc}]

PvFrames ==
    {Frame(StatColumns, rows) :
        rows \in UNION {[1..k -> StatRecords] : k \in 1..MaxRows}}
PvCfgs ==
    {NoPivotCfg}
    \cup {PivotCfg(NameList(<<"C1_NM">>), NameList(<<"PRD_DE">>), "DT", <<>>, f) :
            f \in BOOLEAN}

PvIdle == pv_df = NoneDF /\ pv_cfg = NoPivotCfg /\ pv_out = Pending

BuildDefaultPivot ==
    /\ pv_out = Pending
    /\ ~pv_cfg.present
    /\ pv_out' = make_default_pivot(pv_df)
    /\ UNCHANGED <<pv_df, pv_cfg>>
    /\ UNCHANGED <<dgVars, lbVars, chVars, mainVars>>

BuildCustomPivot ==
    /\ pv_out = Pending
    /\ pv_cfg.present
    /\ pv_out' = make_custom_pivot(pv_df, pv_cfg)
    /\ UNCHANGED <<pv_df, pv_cfg>>
    /\ UNCHANGED <<dgVars, lbVars, chVars, mainVars>>

(***************************************************************************)
(* One call of the batch exporter's pivot_table_view on a bounded table.   *)
(***************************************************************************)
ChangeRecords ==
    [C1_NM : {Scalar(<<"A">>), Scalar(<<"B">>)},
     PRD_DE : {Scalar(<<"2", "0", "2", "3">>), Scalar(<<"2", "0", "2", "4">>),
               Scalar(<<"2", "0", "2", "5", "1", "1">>)},
     DT : {Scalar(<<"1">>), Scalar(<<"3">>), Scalar(<<"x">>)}]

ChFrames ==
    {Frame(StatColumns, rows) :
        rows \in UNION {[1..k -> ChangeRecords] : k \in 1..MaxChangeRows}}

ChIdle == ch_df = NoneDF /\ ch_out = Pending

CallPivotTableView ==
    /\ ch_out = Pending
    /\ ch_out' = pivot_table_view(ch_df)
    /\ UNCHANGED ch_df
    /\ UNCHANGED <<dgVars, lbVars, pvVars, mainVars>>

(***************************************************************************)
(* The job files of jobs/ and the responses of the two providers.          *)
(***************************************************************************)
LongSheetName ==
    [k \in 1..(SheetNameLimit + 3) |-> IF k <= SheetNameLimit THEN "S" ELSE "x"]

Job(provider, item_path, pivot) ==
    [provider |-> provider, item_path |-> item_path, pivot |-> pivot]

JobNames == {<<"a">>, <<"b">>, <<"c">>, <<"d">>, <<"e">>, <<"f">>, <<"g">>}

\* json.load of the job file of that name.
JobFile(name) ==
    CASE name = <<"a">> -> Job("kosis", <<>>, NoPivotCfg)
      [] name = <<"b">> ->
            Job("kosis", <<>>,
                PivotCfg(NameList(<<"C1_NM">>), NameList(<<"PRD_DE">>), "DT",
                         LongSheetName, TRUE))
      [] name = <<"c">> ->
            Job("kosis", <<>>,
                PivotCfg(NameList(<<"C1_NM">>), NameList(<<"NOPE">>), "DT",
                         <<>>, FALSE))
      [] name = <<"d">> ->
            Job("kosis", <<>>,
                PivotCfg(NotAList, NameList(<<"PRD_DE">>), "DT", <<"V">>, FALSE))
      [] name = <<"e">> -> Job("data_go_kr", <<"i", "t", "e", "m">>, NoPivotCfg)
      [] name = <<"f">> -> Job("data_go_kr", <<>>, NoPivotCfg)
      [] name = <<"g">> -> Job("ftp", <<>>, NoPivotCfg)

Rec1 == MapDoc([C1_NM |-> Scalar(<<"A">>), PRD_DE |-> Scalar(<<"2", "0", "2", "3">>),
                DT |-> Scalar(<<"1">>)])
Rec2 == MapDoc([C1_NM |-> Scalar(<<"A">>),
                PRD_DE |-> Scalar(<<"2", "0", "2", "5", "1", "1">>),
                DT |-> Scalar(<<"x">>)])
RecDT == MapDoc([DT |-> Scalar(<<"1">>)])
RecNM == MapDoc([C1_NM |-> Scalar(<<"A">>)])
Five == Scalar(<<"5">>)
ErrDoc == MapDoc([err |-> Scalar(<<"3", "0">>)])

KosisResponses ==
    {HttpError, ErrDoc}
    \cup {ListDoc(l) : l \in {<<>>, <<Rec1>>, <<Rec1, Rec2>>, <<RecDT>>, <<RecNM>>}}

ItemLists == {<<>>, <<Rec1>>, <<Rec1, Five>>, <<Five, Rec1>>}
DataGoKrResponses ==
    {HttpError, NotJson}
    \cup {ListDoc(l) : l \in ItemLists}
    \cup {MapDoc([item |-> x]) : x \in {NullDoc, Five, Rec1}}
    \cup {MapDoc([item |-> ListDoc(l)]) : l \in ItemLists}

Responses(job) ==
    IF job.provider = "kosis" THEN KosisResponses
    ELSE IF job.provider = "data_go_kr" THEN DataGoKrResponses
    ELSE {HttpError}

(***************************************************************************)
(* main of runner.py and main of the batch exporter.                       *)
(***************************************************************************)
Entry(job, resp, status, exc, raw, view, sheet_name) ==
    [job |-> job, resp |-> resp, status |-> status, exc |-> exc,
     raw |-> raw, view |-> view, sheet_name |-> sheet_name]

Written(job, sheets) == [job |-> job, sheets |-> sheets]

MainIdle ==
    /\ prog = "none" /\ api_key = FALSE /\ found = {} /\ jobs = <<>>
    /\ pos = 1 /\ pc = "idle" /\ log = <<>> /\ files = <<>>

\* jobs = sorted(JOBS_DIR.glob("*.json"))
RunnerStart ==
    /\ prog = "runner" /\ pc = "start"
    /\ jobs' = sorted(found)
    /\ pc' = "loop"
    /\ UNCHANGED <<prog, api_key, found, pos, log, files>>
    /\ UNCHANGED <<dgVars, lbVars, pvVars, chVars>>

\* try: run_job(job_file) / except Exception, given what the job's fetch
\* and reshaping produced: save_excel after a return, the failure line
\* after an exception that is caught.
RunnerOutcome(name, resp, out) ==
    IF out.exc = "none"
    THEN /\ files' = Append(files,
               Written(name, save_excel(out.val.raw, out.val.view,
                                        out.val.sheet_name)))
         /\ log' = Append(log,
               Entry(name, resp, "saved", "none", out.val.raw, out.val.view,
                     out.val.sheet_name))
         /\ pos' = pos + 1
         /\ pc' = pc
    ELSE IF main_catches(out.exc)
    THEN /\ log' = Append(log,
               Entry(name, resp, "failed", out.exc, NoneDF, NoneDF, <<>>))
         /\ pos' = pos + 1
         /\ files' = files
         /\ pc' = pc
    ELSE /\ pc' = "crashed"
         /\ UNCHANGED <<log, files, pos>>

\* One turn of "for job_file in jobs".
RunnerStep ==
    /\ prog = "runner" /\ pc = "loop" /\ pos <= Len(jobs)
    /\ \E resp \in Responses(JobFile(jobs[pos])) :
          RunnerOutcome(jobs[pos], resp,
                        run_job_fetch(JobFile(jobs[pos]), resp, api_key))
    /\ UNCHANGED <<prog, api_key, found, jobs>>
    /\ UNCHANGED <<dgVars, lbVars, pvVars, chVars>>

RunnerFinish ==
    /\ prog = "runner" /\ pc = "loop" /\ pos > Len(jobs)
    /\ pc' = "done"
    /\ UNCHANGED <<prog, api_key, found, jobs, pos, log, files>>
    /\ UNCHANGED <<dgVars, lbVars, pvVars, chVars>>

\* The batch exporter up to its loop: no key raises out of main, no enabled
\* row returns.  The enabled rows run in the order of the config sheet,
\* here the ascending order of their names.
LegacyStart ==
    /\ prog = "legacy" /\ pc = "start"
    /\ IF ~api_key THEN pc' = "crashed" /\ jobs' = jobs
       ELSE IF found = {} THEN pc' = "done" /\ jobs' = jobs
       ELSE pc' = "loop" /\ jobs' = sorted(found)
    /\ UNCHANGED <<prog, api_key, found, pos, log, files>>
    /\ UNCHANGED <<dgVars, lbVars, pvVars, chVars>>

\* A row from pivot_table_view(df) on: the workbook, or the ERROR line.
LegacyWrite(name, resp, df, built) ==
    IF built.exc # "none"
    THEN /\ log' = Append(log,
               Entry(name, resp, "failed", built.exc, df, NoneDF, <<>>))
         /\ files' = files
    ELSE /\ log' = Append(log,
               Entry(name, resp, "saved", "none", df, built.val.pivot, TABLE_VIEW))
         /\ files' = Append(files,
               Written(name, legacy_sheets(built.val.df, built.val.pivot,
                                           built.val.change)))

\* A row from df = pd.DataFrame(data) on: the ERROR line, the WARNING and
\* continue of an empty table, or the pivot and the workbook.
LegacyOutcome(name, resp, made) ==
    IF made.exc # "none"
    THEN /\ log' = Append(log,
               Entry(name, resp, "failed", made.exc, NoneDF, NoneDF, <<>>))
         /\ files' = files
    ELSE IF empty(made.val)
    THEN /\ log' = Append(log,
               Entry(name, resp, "skipped", "none", NoneDF, NoneDF, <<>>))
         /\ files' = files
    ELSE LegacyWrite(name, resp, made.val, pivot_table_view(made.val))

\* One row of "for idx, row in cfg_run.iterrows(): try: ... except ...".
LegacyStep ==
    /\ prog = "legacy" /\ pc = "loop" /\ pos <= Len(jobs)
    /\ \E resp \in KosisResponses :
          LegacyOutcome(jobs[pos], resp,
                        IF resp.t = "http_error" THEN Raise("HTTPError")
                        ELSE DataFrameOf(resp))
    /\ pos' = pos + 1
    /\ UNCHANGED <<prog, api_key, found, jobs, pc>>
    /\ UNCHANGED <<dgVars, lbVars, pvVars, chVars>>

LegacyFinish ==
    /\ prog = "legacy" /\ pc = "loop" /\ pos > Len(jobs)
    /\ pc' = "done"
    /\ UNCHANGED <<prog, api_key, found, jobs, pos, log, files>>
    /\ UNCHANGED <<dgVars, lbVars, pvVars, chVars>>

(***************************************************************************)
(* Specifications.                                                         *)
(***************************************************************************)
Init ==
    /\ prog \in {"runner", "legacy"}
    /\ api_key \in BOOLEAN
    /\ found \in {S \in SUBSET JobNames : Cardinality(S) <= MaxJobs}
    /\ jobs = <<>>
    /\ pos = 1
    /\ pc = "start"
    /\ log = <<>>
    /\ files = <<>>
    /\ DgIdle /\ LbIdle /\ PvIdle /\ ChIdle

Next ==
    \/ RunnerStart
    \/ RunnerStep
    \/ RunnerFinish
    \/ LegacyStart
    \/ LegacyStep
    \/ LegacyFinish

Spec == Init /\ [][Next]_vars

\* The loops are sequential and every call in them returns or raises (the
\* requests carry a timeout), so a step that can be taken is taken.
FairSpec == Spec /\ WF_vars(Next)

InitDeepGet ==
    /\ dg_obj \in DgDocs /\ dg_path \in DgPaths /\ dg_out = Pending
    /\ LbIdle /\ PvIdle /\ ChIdle /\ MainIdle

SpecDeepGet == InitDeepGet /\ [][CallDeepGet]_vars

InitLabel ==
    /\ lb_fn \in {"fmt_prd", "fmt_prd2"}
    /\ lb_in \in Labels
    /\ lb_cur = lb_in
    /\ lb_n = 0
    /\ DgIdle /\ PvIdle /\ ChIdle /\ MainIdle

NextLabel == RenameDefault \/ RenameCustom

SpecLabel == InitLabel /\ [][NextLabel]_vars

InitPivot ==
    /\ pv_df \in PvFrames /\ pv_cfg \in PvCfgs /\ pv_out = Pending
    /\ DgIdle /\ LbIdle /\ ChIdle /\ MainIdle

NextPivot == BuildDefaultPivot \/ BuildCustomPivot

SpecPivot == InitPivot /\ [][NextPivot]_vars

InitChange ==
    /\ ch_df \in ChFrames /\ ch_out = Pending
    /\ DgIdle /\ LbIdle /\ PvIdle /\ MainIdle

SpecChange == InitChange /\ [][CallPivotTableView]_vars

(***************************************************************************)
(* Properties of deep_get.                                                 *)
(***************************************************************************)
\* The lookup as the specification words it: a dict is looked up by the
\* segment, a list is indexed by a segment that is a non-negative decimal
\* integer inside the list, everything else yields null.
RECURSIVE Resolved(_, _)
Resolved(cur, parts) ==
    IF Len(parts) = 0 THEN cur
    ELSE IF cur.t = "map"
         THEN Resolved(DictGet(cur.m, Key(Head(parts))), Tail(parts))
    ELSE IF cur.t = "list" /\ IntAccepts(Head(parts))
            /\ IntValue(Head(parts)) < Len(cur.l)
         THEN Resolved(cur.l[IntValue(Head(parts)) + 1], Tail(parts))
    ELSE NullDoc

\* C1: deep_get is total and never raises: for every root and every path a
\* finished call has returned, the root itself for the empty path and else
\* the value the segments resolve to, null wherever a segment cannot be
\* resolved.
C1_DeepGetNeverRaises ==
    dg_out # Pending =>
        /\ dg_out.exc = "none"
        /\ dg_out.val = IF Len(dg_path) = 0 THEN dg_obj
                        ELSE Resolved(dg_obj, SplitDot(dg_path))

(***************************************************************************)
(* Properties of the period labels.                                        *)
(***************************************************************************)
\* The label the specification gives: year, dot, rest for a label of six or
\* more characters that are all decimal digits, the label itself otherwise.
Normalized(x) ==
    IF Len(x) >= PeriodMinLen /\ \A k \in 1..Len(x) : x[k] \in DecimalChars
    THEN SubSeq(x, 1, PeriodSplit) \o <<".">> \o SubSeq(x, PeriodSplit + 1, Len(x))
    ELSE x

\* C7: in the default and in the custom pivot alike, renaming a period label
\* rewrites it to year.rest only when it consists solely of six or more
\* digits and leaves every other label unchanged, so renaming a second time
\* changes nothing.
C7_PeriodLabelNormalization ==
    lb_n >= 1 => lb_cur = Normalized(lb_in)

(***************************************************************************)
(* Properties of the pivots of runner.py.                                  *)
(***************************************************************************)
\* The label of the column a record's period falls in, per build.
ColumnLabelOf(cell) ==
    IF ~pv_cfg.present THEN fmt_prd(astype_str(cell).v)
    ELSE IF pv_cfg.flatten_columns_year THEN fmt_prd2(astype_str(cell).v)
    ELSE astype_str(cell).v

PivotBuilt == pv_out.exc = "none" /\ pv_out.val.kind = "pivot"

\* The records of row key r and column label c, in input order.
SubgroupOf(r, c) ==
    {i \in 1..Len(pv_df.rows) :
        /\ pv_df.rows[i]["C1_NM"] = r[1]
        /\ ColumnLabelOf(pv_df.rows[i]["PRD_DE"]) = c}

Earliest(S) == CHOOSE i \in S : \A j \in S : i <= j

\* The numeric reading of the value of record i.
NumericDT(i) ==
    LET c == pv_df.rows[i]["DT"] IN
    IF c.t = "scalar" /\ c.v # <<>> /\ \A k \in 1..Len(c.v) : c.v[k] \in DecimalChars
    THEN Num(IntValue(c.v)) ELSE NaN

\* The records that reach the pivot: a row key that is not missing and a
\* value that reads as a number.
Contributing ==
    {i \in 1..Len(pv_df.rows) :
        ~isna(pv_df.rows[i]["C1_NM"]) /\ NumericDT(i) # NaN}

C6_CellIsFirstRecord ==
    PivotBuilt =>
        \A i \in 1..Len(pv_out.val.rows) : \A j \in 1..Len(pv_out.val.columns) :
            LET sub == SubgroupOf(pv_out.val.rows[i], pv_out.val.columns[j]) IN
            sub # {} => pv_out.val.cells[i][j] = NumericDT(Earliest(sub))

\* C6 amended: the cell holds the numeric reading of the first record, in
\* input order, whose value is numeric; it is null only when no record of
\* the combination has a numeric value.
C6_CellIsFirstNumeric ==
    PivotBuilt =>
        \A i \in 1..Len(pv_out.val.rows) : \A j \in 1..Len(pv_out.val.columns) :
            LET sub == SubgroupOf(pv_out.val.rows[i], pv_out.val.columns[j])
                numeric == {k \in sub : NumericDT(k) # NaN}
            IN  sub # {} =>
                    pv_out.val.cells[i][j] =
                        IF numeric = {} THEN NaN ELSE NumericDT(Earliest(numeric))

\* A pivot with a cell whose first record is not numeric and whose later
\* record is, and whose two numeric records differ.
C6_Witness ==
    /\ PivotBuilt
    /\ \E i \in 1..Len(pv_out.val.rows) : \E j \in 1..Len(pv_out.val.columns) :
          LET sub == SubgroupOf(pv_out.val.rows[i], pv_out.val.columns[j]) IN
          /\ Cardinality(sub) >= 2
          /\ NumericDT(Earliest(sub)) = NaN
          /\ pv_out.val.cells[i][j] # NaN

(***************************************************************************)
(* Properties of the change table of the batch exporter.                   *)
(***************************************************************************)
ChangeBuilt == ch_out.exc = "none" /\ ch_out.val.pivot # NoneDF

\* C9: the change table has the index of the view; its first value column
\* is null in every row; every later column holds the difference of the
\* view's column and the one before it, null when either operand is null.
C9_ChangeTable ==
    ChangeBuilt =>
        LET pv == ch_out.val.pivot
            chg == ch_out.val.change
        IN  /\ chg.index = pv.index
            /\ chg.rows = pv.rows
            /\ chg.columns = pv.columns
            /\ \A i \in 1..Len(pv.rows) : \A j \in 1..Len(pv.columns) :
                  chg.cells[i][j] =
                      IF j = 1 THEN NaN
                      ELSE IF pv.cells[i][j].t = "num" /\ pv.cells[i][j - 1].t = "num"
                      THEN [t |-> "num", n |-> pv.cells[i][j].n - pv.cells[i][j - 1].n]
                      ELSE NaN

\* A change table with a non-zero difference in one row and a null operand
\* in another.
C9_Witness ==
    /\ ChangeBuilt
    /\ Len(ch_out.val.pivot.columns) >= 2
    /\ \E i \in 1..Len(ch_out.val.pivot.rows) :
          /\ ch_out.val.change.cells[i][2].t = "num"
          /\ ch_out.val.change.cells[i][2].n # 0
    /\ \E i \in 1..Len(ch_out.val.pivot.rows) :
          /\ ch_out.val.pivot.cells[i][1].t = "num"
          /\ ch_out.val.pivot.cells[i][2] = NaN
          /\ ch_out.val.change.cells[i][2] = NaN

(***************************************************************************)
(* Properties of the two main loops.                                       *)
(***************************************************************************)
LogNames == {log[k].job : k \in 1..Len(log)}

\* The jobs attempted so far are the first ones of the sorted job files,
\* each once, and no exception has left the loop.
JobsInOrder ==
    /\ pc # "crashed"
    /\ \A k \in 1..Len(log) : log[k].job \in found
    /\ \A k \in 1..Len(log) : \A m \in 1..Len(log) :
          k < m => StrLess(log[k].job, log[m].job)
    /\ \A k \in 1..Len(log) : \A n \in found \ LogNames :
          StrLess(log[k].job, n)
    /\ pc = "done" => LogNames = found

\* C2: main of runner.py attempts every job file exactly once, in sorted
\* order; an exception of one job is caught and keeps no later job from
\* running; the loop always reaches its end.
C2_EveryJobAttempted ==
    /\ [](prog = "runner" => JobsInOrder)
    /\ <>(prog # "runner" \/ pc = "done")

\* A finished run of two jobs whose first job failed and whose second was
\* saved.
C2_Witness ==
    /\ prog = "runner" /\ pc = "done"
    /\ Len(log) = 2
    /\ log[1].status = "failed"
    /\ log[2].status = "saved"

\* The table run_kosis_job builds from the response of log entry e: it has
\* the key, the body is a list of records and the table is not empty.
KosisFetched(e) ==
    /\ JobFile(e.job).provider = "kosis"
    /\ api_key
    /\ e.resp.t = "list"
    /\ Len(e.resp.l) > 0
    /\ \A i \in 1..Len(e.resp.l) : e.resp.l[i].t = "map"

\* The pivot of the job cannot be built on table columns cols: index or
\* columns is not a list, or a configured column is missing.
PivotCannotBuild(pivot, cols) ==
    /\ pivot.present
    /\ \/ ~pivot.index.islist
       \/ ~pivot.columns.islist
       \/ \E k \in 1..Len(pivot.index.names) : pivot.index.names[k] \notin cols
       \/ \E k \in 1..Len(pivot.columns.names) : pivot.columns.names[k] \notin cols
       \/ pivot.values \notin cols

\* C3: a pivot that cannot be built (a configured column missing, index or
\* columns not a list) never fails the job: the view is null and the raw
\* sheet is still written.
C3_PivotFailureKeepsJob ==
    \A k \in 1..Len(log) :
        (/\ prog = "runner"
         /\ KosisFetched(log[k])
         /\ PivotCannotBuild(JobFile(log[k].job).pivot,
                             UNION {DOMAIN log[k].resp.l[i].m :
                                        i \in 1..Len(log[k].resp.l)}))
        => /\ log[k].status = "saved"
           /\ log[k].view = NoneDF
           /\ \E f \in 1..Len(files) :
                 /\ files[f].job = log[k].job
                 /\ files[f].sheets = <<[name |-> RAW, table |-> log[k].raw]>>

\* A saved job whose pivot names a missing column, and one whose index is
\* not a list.
C3_Witness ==
    /\ prog = "runner"
    /\ \E k \in 1..Len(log) :
          /\ KosisFetched(log[k])
          /\ JobFile(log[k].job).pivot.present
          /\ ~JobFile(log[k].job).pivot.index.islist
          /\ log[k].status = "saved"
    /\ \E k \in 1..Len(log) :
          /\ KosisFetched(log[k])
          /\ JobFile(log[k].job).pivot.present
          /\ JobFile(log[k].job).pivot.index.islist
          /\ PivotCannotBuild(JobFile(log[k].job).pivot,
                              UNION {DOMAIN log[k].resp.l[i].m :
                                         i \in 1..Len(log[k].resp.l)})
          /\ log[k].status = "saved"

\* The items run_data_go_kr_job extracts from the response of log entry e,
\* when the request and the lookup went through.
ItemsLookedUp(e) ==
    /\ JobFile(e.job).provider = "data_go_kr"
    /\ e.resp.t \in {"list", "map"}
    /\ Len(JobFile(e.job).item_path) = 0 => e.resp.t = "list"

ItemsOf(e) ==
    LET at == IF Len(JobFile(e.job).item_path) = 0 THEN e.resp
              ELSE DictGet(e.resp.m, Key(JobFile(e.job).item_path))
    IN  IF at.t = "null" THEN <<>>
        ELSE IF at.t = "list" THEN at.l
        ELSE <<at>>

\* The fetch of log entry e went through and produced nothing: an empty
\* list of records from KOSIS, no item from data.go.kr.
EmptyInput(e) ==
    IF prog = "legacy" THEN e.resp = ListDoc(<<>>)
    ELSE \/ JobFile(e.job).provider = "kosis" /\ api_key /\ e.resp = ListDoc(<<>>)
         \/ /\ ItemsLookedUp(e)
            /\ JobFile(e.job).item_path # <<>> => e.resp.t = "map"
            /\ ItemsOf(e) = <<>>

NoFileOf(name) == \A f \in 1..Len(files) : files[f].job # name

\* C4 as stated: a fetch that yields no items or a table of zero rows makes
\* the job fail with an error raised to the job level; no empty table is
\* returned and no output file is written.
C4_EmptyInputFails ==
    \A k \in 1..Len(log) :
        EmptyInput(log[k]) =>
            /\ log[k].status = "failed"
            /\ log[k].exc # "none"
            /\ NoFileOf(log[k].job)

\* C4 amended: runner.py raises an error to the job level; the batch
\* exporter raises none and skips the row with a warning; in both no table
\* is returned and no output file is written.
C4_EmptyInputWritesNothing ==
    \A k \in 1..Len(log) :
        EmptyInput(log[k]) =>
            /\ prog = "runner" =>
                  log[k].status = "failed" /\ log[k].exc = "RuntimeError"
            /\ prog = "legacy" =>
                  log[k].status = "skipped" /\ log[k].exc = "none"
            /\ log[k].raw = NoneDF
            /\ NoFileOf(log[k].job)

\* A run of runner.py with a KOSIS job that got an empty list and a
\* data.go.kr job that got no item.
C4_Witness ==
    /\ prog = "runner"
    /\ \E k \in 1..Len(log) :
          EmptyInput(log[k]) /\ JobFile(log[k].job).provider = "kosis"
    /\ \E k \in 1..Len(log) :
          EmptyInput(log[k]) /\ JobFile(log[k].job).provider = "data_go_kr"

\* C8: when any item of a non-empty data.go.kr item sequence is not a map,
\* the whole sequence becomes a one-column table under "value"; a sequence
\* of maps becomes the table of its records.
C8_NonMapItemsWrapped ==
    \A k \in 1..Len(log) :
        (/\ prog = "runner"
         /\ ItemsLookedUp(log[k])
         /\ JobFile(log[k].job).item_path # <<>> => log[k].resp.t = "map"
         /\ ItemsOf(log[k]) # <<>>)
        => LET items == ItemsOf(log[k]) IN
           /\ log[k].status = "saved"
           /\ log[k].raw.columns =
                 IF \E i \in 1..Len(items) : items[i].t # "map"
                 THEN {"value"}
                 ELSE UNION {DOMAIN items[i].m : i \in 1..Len(items)}
           /\ (\E i \in 1..Len(items) : items[i].t # "map") =>
                 \A i \in 1..Len(items) : log[k].raw.rows[i]["value"] = items[i]

\* The log entry of the job of a written file.
EntryOf(name) == log[CHOOSE k \in 1..Len(log) : log[k].job = name]

\* The first 31 characters of a sheet label.
Label31(s) == IF Len(s) <= 31 THEN s ELSE [k \in 1..31 |-> s[k]]

\* C10 as stated: the sheets written for a job are exactly RAW, holding the
\* raw table unchanged, followed by the view under its label cut to 31
\* characters if and only if the view is not null.
C10_SheetSequence ==
    \A f \in 1..Len(files) :
        LET e == EntryOf(files[f].job) IN
        files[f].sheets =
            <<[name |-> RAW, table |-> e.raw]>>
            \o (IF e.view # NoneDF
                THEN <<[name |-> Label31(e.sheet_name), table |-> e.view]>>
                ELSE <<>>)

\* C10 amended: runner.py writes exactly that sequence; the batch exporter
\* writes RAW holding the raw table with its value column made numeric and
\* its period column made text, followed, if and only if the view is not
\* null, by TABLE_VIEW holding the view and CHANGE.
C10_SheetSequencePerProgram ==
    \A f \in 1..Len(files) :
        LET e == EntryOf(files[f].job)
            sheets == files[f].sheets
        IN  IF prog = "runner"
            THEN sheets =
                    <<[name |-> RAW, table |-> e.raw]>>
                    \o (IF e.view # NoneDF
                        THEN <<[name |-> Label31(e.sheet_name), table |-> e.view]>>
                        ELSE <<>>)
            ELSE /\ sheets[1].name = RAW
                 /\ sheets[1].table.columns = e.raw.columns
                 /\ \A i \in 1..Len(e.raw.rows) : \A c \in e.raw.columns :
                       sheets[1].table.rows[i][c] =
                           IF c = "DT" THEN to_numeric(e.raw.rows[i][c])
                           ELSE IF c = "PRD_DE" THEN astype_str(e.raw.rows[i][c])
                           ELSE e.raw.rows[i][c]
                 /\ IF e.view = NoneDF THEN Len(sheets) = 1
                    ELSE /\ Len(sheets) = 3
                         /\ sheets[2] = [name |-> TABLE_VIEW, table |-> e.view]
                         /\ sheets[3].name = CHANGE

\* A run of runner.py that wrote a view under a label cut to 31 characters
\* and a file with the raw sheet alone.
C10_Witness ==
    /\ prog = "runner"
    /\ \E f \in 1..Len(files) :
          /\ Len(files[f].sheets) = 2
          /\ Len(EntryOf(files[f].job).sheet_name) > 31
          /\ Len(files[f].sheets[2].name) = 31
    /\ \E f \in 1..Len(files) : Len(files[f].sheets) = 1

=============================================================================
